---- MODULE Spec2Model ----
(***************************************************************************)
(* Model of train/train_SFT.py: the supervised fine-tuning data pipeline.  *)
(*   loader      SupervisedDataset.__init__  (parse, shuffle, truncate,     *)
(*               normalise, render sources and targets)                     *)
(*   preprocess  _tokenize_fn + preprocess   (tokenise, mask prompt span)   *)
(*   collator    DataCollatorForSupervisedDataset (__call__, naive__call__) *)
(*                                                                         *)
(* Text is a sequence of pieces (strings); token ids are integers.  The    *)
(* tokenizer and Python's random module are external: they are modelled    *)
(* by small deterministic stand-ins that keep what the pipeline relies on  *)
(* (special tokens, truncation, merges, a seedable global generator).      *)
(***************************************************************************)
EXTENDS Integers, Sequences, FiniteSets, TLC

VARIABLES
    tokenizer,    \* the tokenizer configuration built by train()
    file,         \* content of the file at data_args.data_path
    data_length,  \* data_args.data_length
    rng,          \* state of Python's global random generator
    fresh,        \* TRUE iff nothing was drawn from rng since it was seeded
    log,          \* results of the SupervisedDataset constructions so far
    dataset,      \* the dataset in use (self.sources, self.targets)
    out           \* result of the last preprocess / collator call

vars == <<tokenizer, file, data_length, rng, fresh, log, dataset, out>>

\* ------------------------------------------------------------------ bounds
MaxBatch == 2      \* instances per collator / preprocess call
MaxRecords == 2    \* records in the data file
MaxLoads == 2      \* dataset constructions in one behaviour
TruncLen == 3      \* the small model_max_length (forces truncation)

\* --------------------------------------------------------------- constants
IGNORE_INDEX == -100
seed == 42

Min(a, b) == IF a <= b THEN a ELSE b
Max(a, b) == IF a >= b THEN a ELSE b

\* Non-empty sequences over S of length at most n.
SeqsUpTo(S, n) == UNION {[1..k -> S] : k \in 1..n}

RECURSIVE Concat(_)
Concat(ss) == IF ss = <<>> THEN <<>> ELSE Head(ss) \o Concat(Tail(ss))

RECURSIVE Count(_, _)
Count(s, x) == IF s = <<>> THEN 0
               ELSE (IF Head(s) = x THEN 1 ELSE 0) + Count(Tail(s), x)

\* --------------------------------------------------------------- tokenizer
DEFAULT_EOS_TOKEN == "</s>"

\* tokenizer.eos_token: the text of the end-of-sequence marker.
eos_token(tok) == DEFAULT_EOS_TOKEN

\* Ids of the special tokens.  tokenizer.pad_token_id is part of the
\* configuration: a dedicated [PAD] id, or the id of the eos token when the
\* checkpoint declares pad_token = eos_token.
BosId == 1
EosId == 2
PadId == 0

\* The vocabulary: one id per text piece.
Vocab(p) ==
    CASE p = DEFAULT_EOS_TOKEN -> EosId
      [] p = "a" -> 3
      [] p = "b" -> 4
      [] p = "<|user|>:" -> 5
      [] p = "<|assistant|>:" -> 6
      [] p = "think" -> 7

\* Subword merging: the pieces "a" "b" in a row become the single token 8.
RECURSIVE Merge(_)
Merge(ids) ==
    IF Len(ids) < 2 THEN ids
    ELSE IF ids[1] = 3 /\ ids[2] = 4 THEN <<8>> \o Merge(Tail(Tail(ids)))
    ELSE <<ids[1]>> \o Merge(Tail(ids))

Encode(text, tok) ==
    LET raw == [i \in 1..Len(text) |-> Vocab(text[i])]
    IN  IF tok.merges THEN Merge(raw) ELSE raw

\* tokenizer(text, max_length=model_max_length, truncation=True).input_ids[0]:
\* encode, cut the text tokens on the right so that the result with the
\* tokenizer's own begin/end tokens fits model_max_length, add those tokens.
Tokenize(text, tok) ==
    LET ids  == Encode(text, tok)
        nsp  == (IF tok.add_bos THEN 1 ELSE 0) + (IF tok.add_eos THEN 1 ELSE 0)
        room == Max(tok.model_max_length - nsp, 0)
        body == SubSeq(ids, 1, Min(Len(ids), room))
    IN  (IF tok.add_bos THEN <<BosId>> ELSE <<>>) \o body
        \o (IF tok.add_eos THEN <<EosId>> ELSE <<>>)

NoTruncLen == TruncLen + 20

Tokenizers ==
    [add_bos : BOOLEAN, add_eos : BOOLEAN, merges : BOOLEAN,
     pad_token_id : {PadId, EosId},
     model_max_length : {TruncLen, NoTruncLen}]

\* ------------------------------------------------------------- _tokenize_fn
\* One tensor per string, and per string the number of ids that differ from
\* the pad id.  input_ids and labels are the same list.
_tokenize_fn(strings, tok) ==
    LET ids  == [k \in 1..Len(strings) |-> Tokenize(strings[k], tok)]
        lens == [k \in 1..Len(strings) |->
                    Len(ids[k]) - Count(ids[k], tok.pad_token_id)]
    IN  [input_ids |-> ids, labels |-> ids,
         input_ids_lens |-> lens, labels_lens |-> lens]

\* --------------------------------------------------------------- preprocess
\* Tensors are mutable objects: a heap maps addresses to tensors and the
\* lists input_ids / labels hold addresses.

\* labels = input_ids: no copy, both names denote the same tensors.
AliasRefs(refs, heap) == [refs |-> refs, heap |-> heap]

\* copy.deepcopy(input_ids): new tensors with the same content.
DeepCopy(refs, heap) ==
    LET n == Len(heap)
    IN  [refs |-> [k \in 1..Len(refs) |-> n + k],
         heap |-> heap \o [k \in 1..Len(refs) |-> heap[refs[k]]]]

\* label[:source_len] = IGNORE_INDEX with source_len - 1 in place of source_len.
MaskPrefixShort(t, source_len) ==
    [i \in 1..Len(t) |-> IF i <= source_len - 1 THEN IGNORE_INDEX ELSE t[i]]

\* label[:source_len] = IGNORE_INDEX on a tensor: the slice is clamped to the
\* tensor's length and the length does not change.
MaskPrefix(t, source_len) ==
    [i \in 1..Len(t) |-> IF i <= source_len THEN IGNORE_INDEX ELSE t[i]]

preprocess(sources, targets, tok) ==
    LET n        == Min(Len(sources), Len(targets))
        examples == [k \in 1..n |-> sources[k] \o targets[k]]
        examples_tokenized == _tokenize_fn(examples, tok)
        sources_tokenized  == _tokenize_fn(sources, tok)
        heap0     == examples_tokenized.input_ids
        input_ids == [k \in 1..n |-> k]
        copied    == DeepCopy(input_ids, heap0)
        labels    == copied.refs
        lens      == sources_tokenized.input_ids_lens
        \* for label, source_len in zip(labels, lens): label[:source_len] = -100
        heap1 == [a \in 1..Len(copied.heap) |->
                    IF \E k \in 1..n : labels[k] = a
                    THEN MaskPrefix(copied.heap[a],
                                    lens[CHOOSE k \in 1..n : labels[k] = a])
                    ELSE copied.heap[a]]
    IN  [input_ids |-> [k \in 1..n |-> heap1[input_ids[k]]],
         labels    |-> [k \in 1..n |-> heap1[labels[k]]]]

\* ------------------------------------------------------------ pad_sequence
MaxLen(seqs) ==
    IF seqs = <<>> THEN 0
    ELSE CHOOSE m \in {Len(seqs[k]) : k \in 1..Len(seqs)} :
            \A k \in 1..Len(seqs) : Len(seqs[k]) <= m

Fill(n, v) == [i \in 1..n |-> v]

\* Padding on the left (the other padding side).
pad_sequence_left(seqs, padding_value) ==
    LET m == MaxLen(seqs)
    IN  [k \in 1..Len(seqs) |-> Fill(m - Len(seqs[k]), padding_value) \o seqs[k]]

\* Padding to one column more than the longest sequence.
pad_sequence_wide(seqs, padding_value) ==
    LET m == MaxLen(seqs)
    IN  [k \in 1..Len(seqs) |-> seqs[k] \o Fill(m + 1 - Len(seqs[k]), padding_value)]

\* torch.nn.utils.rnn.pad_sequence(seqs, batch_first=True, padding_value):
\* every row is filled on the right up to the longest sequence.
pad_sequence(seqs, padding_value) ==
    LET m == MaxLen(seqs)
    IN  [k \in 1..Len(seqs) |-> seqs[k] \o Fill(m - Len(seqs[k]), padding_value)]

\* input_ids.ne(pad_token_id)
attention_mask_of(input_ids, tok) ==
    [k \in 1..Len(input_ids) |->
        [i \in 1..Len(input_ids[k]) |-> input_ids[k][i] # tok.pad_token_id]]

\* ---------------------------------------------------------------- collator
\* DataCollatorForSupervisedDataset.naive__call__: instances of tensors.
naive__call__(instances, tok) ==
    LET ids  == pad_sequence([k \in 1..Len(instances) |-> instances[k].input_ids],
                             tok.pad_token_id)
        labs == pad_sequence([k \in 1..Len(instances) |-> instances[k].labels],
                             IGNORE_INDEX)
    IN  [input_ids |-> ids, labels |-> labs,
         attention_mask |-> attention_mask_of(ids, tok)]

\* DataCollatorForSupervisedDataset.__call__: instances of texts, as
\* SupervisedDataset.__getitem__ returns them.
__call__(instances, tok) ==
    LET sources == [k \in 1..Len(instances) |-> instances[k].input_ids]
        targets == [k \in 1..Len(instances) |-> instances[k].labels]
        data_dict == preprocess(sources, targets, tok)
        ids  == pad_sequence(data_dict.input_ids, tok.pad_token_id)
        labs == pad_sequence(data_dict.labels, IGNORE_INDEX)
    IN  [input_ids |-> ids, labels |-> labs,
         attention_mask |-> attention_mask_of(ids, tok)]

\* ------------------------------------------------------------------ random
\* Python's global generator, abstracted to a small full-period congruential
\* generator: random.seed(x) replaces the state, every draw advances it.
RngMod == 16

random_seed_skipped(state, x) == state

random_seed(state, x) == x % RngMod

RngStep(s) == (5 * s + 1) % RngMod

\* random._randbelow(n), n >= 1.
randbelow(s, n) == [val |-> (RngStep(s) \div 2) % n, rng |-> RngStep(s)]

\* random.sample(population, k) with k = len(population): the pool branch
\*   for i in range(k): j = randbelow(n-i); result[i] = pool[j];
\*                      pool[j] = pool[n-i-1]
RECURSIVE SampleLoop(_, _, _, _)
SampleLoop(pool, m, s, result) ==
    IF m = 0 THEN [val |-> result, rng |-> s]
    ELSE LET r == randbelow(s, m)
             j == r.val + 1
         IN  SampleLoop([pool EXCEPT ![j] = pool[m]], m - 1, r.rng,
                        Append(result, pool[j]))

random_sample(population, s) == SampleLoop(population, Len(population), s, <<>>)

\* ------------------------------------------------------------------- files
\* A record of the data file: a JSON object with string values.
Rec(k1, v1, k2, v2) == [k \in {k1, k2} |-> IF k = k1 THEN v1 ELSE v2]

RecordPool ==
    { Rec("instruction", <<>>, "output", <<"a">>),
      Rec("instruction", <<"a">>, "output", <<"b">>),
      Rec("query", <<>>, "response", <<"b">>),
      Rec("query", <<"b">>, "response", <<"a">>) }

Lex(t) == [t |-> t, v |-> <<>>]
Obj(r) == [t |-> "obj", v |-> r]

\* The lines of the file, each a sequence of lexemes, before damage.
CleanLines(f) ==
    LET n == Len(f.recs)
    IN  CASE f.layout = "array" ->
               << <<Lex("[")>>
                  \o Concat([k \in 1..n |->
                        IF k < n THEN <<Obj(f.recs[k]), Lex(",")>>
                        ELSE <<Obj(f.recs[k])>>])
                  \o <<Lex("]")>> >>
          [] f.layout = "pretty" ->
               << <<Lex("[")>> >>
               \o [k \in 1..n |->
                        IF k < n THEN <<Obj(f.recs[k]), Lex(",")>>
                        ELSE <<Obj(f.recs[k])>>]
               \o << <<Lex("]")>> >>
          [] f.layout = "jsonl" -> [k \in 1..n |-> <<Obj(f.recs[k])>>]

\* f.junk = 0: the file is clean; f.junk = p > 0: a damaged line (f.damage:
\* "junk", text that is not JSON, or "blank", an empty line) stands before
\* line p of the clean file.
FileLines(f) ==
    LET c == CleanLines(f)
        l == IF f.damage = "junk" THEN <<Lex("?")>> ELSE <<>>
    IN  IF f.junk = 0 THEN c
        ELSE SubSeq(c, 1, f.junk - 1) \o <<l>> \o SubSeq(c, f.junk, Len(c))

\* ------------------------------------------------------------------- json
\* Parsed values carry their Python type: a dict (a record) or a list.
JsonError == [ok |-> FALSE, kind |-> "error", val |-> <<>>]
Dict(r) == [ok |-> TRUE, kind |-> "dict", val |-> r]

\* The elements of "obj , obj , ... obj", or failure.
RECURSIVE Elements(_)
Elements(lx) ==
    IF Len(lx) = 0 \/ lx[1].t # "obj" THEN JsonError
    ELSE IF Len(lx) = 1 THEN [ok |-> TRUE, kind |-> "list", val |-> <<Dict(lx[1].v)>>]
    ELSE IF lx[2].t # "," THEN JsonError
    ELSE LET rest == Elements(SubSeq(lx, 3, Len(lx)))
         IN  IF rest.ok
             THEN [ok |-> TRUE, kind |-> "list",
                   val |-> <<Dict(lx[1].v)>> \o rest.val]
             ELSE JsonError

\* json.loads on a text of lexemes: one JSON value, an object or an array of
\* objects; anything else (no value, text after the value) is a decode error.
json_loads(lx) ==
    IF Len(lx) = 1 /\ lx[1].t = "obj"
        THEN Dict(lx[1].v)
    ELSE IF Len(lx) >= 2 /\ lx[1].t = "[" /\ lx[Len(lx)].t = "]"
        THEN IF Len(lx) = 2 THEN [ok |-> TRUE, kind |-> "list", val |-> <<>>]
             ELSE Elements(SubSeq(lx, 2, Len(lx) - 1))
    ELSE JsonError

\* jload(f): json.load of the whole file (line breaks are white space).
jload(f) == json_loads(Concat(FileLines(f)))

\* Skipping the lines that do not parse.
json_lines_lenient(f) ==
    LET lines == FileLines(f)
        good  == SelectSeq(lines, LAMBDA l : json_loads(l).ok)
    IN  [ok |-> TRUE, kind |-> "list",
         val |-> [k \in 1..Len(good) |-> json_loads(good[k])]]

\* [json.loads(line.strip()) for line in lines]: every line must parse.
json_lines(f) ==
    LET lines == FileLines(f)
    IN  IF \E k \in 1..Len(lines) : ~json_loads(lines[k]).ok THEN JsonError
        ELSE [ok |-> TRUE, kind |-> "list",
              val |-> [k \in 1..Len(lines) |-> json_loads(lines[k])]]

\* -------------------------------------------------------- SupervisedDataset
\* The scaffold without the instruction.
prompt_input_unfilled(example) ==
    <<"<|user|>:", "<|assistant|>:", "think">>

\* PROMPT_DICT["prompt_input"].format_map(example): the fixed scaffold with the
\* record's instruction put in the place of {instruction}.
prompt_input_format(example) ==
    <<"<|user|>:">> \o example["instruction"] \o <<"<|assistant|>:", "think">>

\* list[:c]
SlicePrefix(l, c) ==
    IF c >= 0 THEN SubSeq(l, 1, Min(c, Len(l)))
    ELSE SubSeq(l, 1, Max(Len(l) + c, 0))

Failed(status, s) ==
    [status |-> status, list_data_dict |-> <<>>, sources |-> <<>>,
     targets |-> <<>>, rng |-> s]

HasKey(e, key) == e.kind = "dict" /\ key \in DOMAIN e.val

\* try: jload(data_path)  except BaseException: the lines, one value each
ParseFile(f) ==
    LET whole == jload(f)
    IN  IF whole.ok THEN whole ELSE json_lines(f)

\* Lines 170-195: normalise the schema, render sources and targets.
Render(l, tok, s) ==
    LET first_has == HasKey(l[1], "instruction")
        renamed == [k \in 1..Len(l) |->
                      Dict(Rec("instruction", l[k].val["query"],
                               "output", l[k].val["response"]))]
        dicts == IF first_has THEN l ELSE renamed
    IN  IF Len(l) = 0 THEN Failed("IndexError", s)
        ELSE IF ~first_has /\ \E k \in 1..Len(l) : l[k].kind # "dict"
            THEN Failed("TypeError", s)
        ELSE IF ~first_has /\ \E k \in 1..Len(l) :
                    ~HasKey(l[k], "query") \/ ~HasKey(l[k], "response")
            THEN Failed("KeyError", s)
        ELSE IF \E k \in 1..Len(dicts) : dicts[k].kind # "dict"
            THEN Failed("TypeError", s)
        ELSE IF \E k \in 1..Len(dicts) :
                    ~HasKey(dicts[k], "instruction") \/ ~HasKey(dicts[k], "output")
            THEN Failed("KeyError", s)
        ELSE [status |-> "ok",
              list_data_dict |-> [k \in 1..Len(dicts) |-> dicts[k].val],
              sources |-> [k \in 1..Len(dicts) |->
                             IF dicts[k].val["instruction"] = <<>> THEN <<>>
                             ELSE prompt_input_format(dicts[k].val)],
              targets |-> [k \in 1..Len(dicts) |->
                             dicts[k].val["output"] \o <<eos_token(tok)>>],
              rng |-> s]

\* SupervisedDataset.__init__(data_args, tokenizer) with the generator in
\* state s: the dataset, or the exception that ends the construction, and the
\* generator's state afterwards.
SupervisedDataset(f, length, tok, s) ==
    LET parsed == ParseFile(f)
    IN  IF ~parsed.ok THEN Failed("JSONDecodeError", s)
        ELSE IF parsed.kind # "list" THEN Failed("TypeError", s)
        ELSE LET shuffled == random_sample(parsed.val, s)
             IN  Render(SlicePrefix(shuffled.val, length), tok, shuffled.rng)

\* SupervisedDataset.__len__
__len__(ds) == Len(ds.sources)

\* SupervisedDataset.__getitem__
__getitem__(ds, i) == [input_ids |-> ds.sources[i], labels |-> ds.targets[i]]

\* ---------------------------------------------------- specification: loader
NoFile == [layout |-> "none", recs |-> <<>>, junk |-> 0, damage |-> "none"]
NoDataset == [status |-> "none", list_data_dict |-> <<>>,
              sources |-> <<>>, targets |-> <<>>]
NoOut == [kind |-> "none"]

DefaultTokenizer ==
    [add_bos |-> TRUE, add_eos |-> FALSE, merges |-> FALSE,
     pad_token_id |-> PadId, model_max_length |-> NoTruncLen]

Layouts == {"array", "pretty", "jsonl"}

Files ==
    { f \in [layout : Layouts,
             recs : {<<>>} \cup SeqsUpTo(RecordPool, MaxRecords),
             junk : 0..(MaxRecords + 3),
             damage : {"none", "junk", "blank"}] :
        /\ (f.junk = 0) = (f.damage = "none")
        /\ f.junk <= Len(CleanLines([f EXCEPT !.junk = 0])) + 1 }

Init ==
    /\ tokenizer = DefaultTokenizer
    /\ file \in Files
    /\ data_length \in (-1)..(MaxRecords + 1)
    /\ rng = random_seed(0, seed)
    /\ fresh = TRUE
    /\ log = <<>>
    /\ dataset = NoDataset
    /\ out = NoOut

\* A new process: `import random; random.seed(42)` and the seeding of train()
\* run before anything is drawn.  The generator's state before seeding is
\* whatever the interpreter started with.
StartRun ==
    /\ Len(log) < MaxLoads
    /\ \E s0 \in 0..(RngMod - 1) : rng' = random_seed(s0, seed)
    /\ fresh' = TRUE
    /\ dataset' = NoDataset
    /\ UNCHANGED <<tokenizer, file, data_length, log, out>>

\* make_supervised_data_module: one construction of the dataset.
Construct ==
    /\ Len(log) < MaxLoads
    /\ LET r  == SupervisedDataset(file, data_length, tokenizer, rng)
           ds == [status |-> r.status, list_data_dict |-> r.list_data_dict,
                  sources |-> r.sources, targets |-> r.targets]
       IN  /\ dataset' = ds
           /\ log' = Append(log, [fresh |-> fresh, ds |-> ds])
           /\ rng' = r.rng
           /\ fresh' = (fresh /\ r.rng = rng)
    /\ UNCHANGED <<tokenizer, file, data_length, out>>

Next == StartRun \/ Construct

Spec == Init /\ [][Next]_vars

\* ------------------------------------------------------- claims: the loader
\* What the specification says of a record: query/response renamed.
Normalized(r) ==
    IF "instruction" \in DOMAIN r THEN r
    ELSE Rec("instruction", r["query"], "output", r["response"])

Contains(s, sub) ==
    \E off \in 0..(Len(s) - Len(sub)) : SubSeq(s, off + 1, off + Len(sub)) = sub

SameSchema(recs) ==
    \A i, j \in 1..Len(recs) : DOMAIN recs[i] = DOMAIN recs[j]

\* The file is a well-formed JSON array or well-formed JSON lines of objects.
CleanFile == file.damage = "none"

\* ds holds a prefix of a permutation of the file's records.
PrefixOfPermutation(ds) ==
    \E pos \in [1..Len(ds.list_data_dict) -> 1..Len(file.recs)] :
        /\ \A i, j \in DOMAIN pos : i # j => pos[i] # pos[j]
        /\ \A i \in DOMAIN pos : ds.list_data_dict[i] = Normalized(file.recs[pos[i]])

\* C5: for every record kept by SupervisedDataset the source is the empty
\* text when the instruction is empty and otherwise the fixed template around
\* the verbatim instruction; the target is the output followed by the
\* end-of-sequence marker; sources[i] and targets[i] belong to record i.
C5_Render ==
    \A e \in 1..Len(log) :
        LET ds == log[e].ds
        IN  ds.status = "ok" =>
            /\ Len(ds.sources) = Len(ds.list_data_dict)
            /\ Len(ds.targets) = Len(ds.list_data_dict)
            /\ Len(ds.list_data_dict) > 0
            /\ PrefixOfPermutation(ds)
            /\ \A i \in 1..Len(ds.list_data_dict) :
                 LET r == ds.list_data_dict[i]
                 IN  /\ (r["instruction"] = <<>>) => ds.sources[i] = <<>>
                     /\ (r["instruction"] # <<>>) =>
                          /\ ds.sources[i] # <<>>
                          /\ Contains(ds.sources[i], r["instruction"])
                          /\ ds.sources[i] =
                               <<"<|user|>:">> \o r["instruction"]
                               \o <<"<|assistant|>:", "think">>
                     /\ ds.targets[i] = r["output"] \o <<DEFAULT_EOS_TOKEN>>

C5_Witness ==
    /\ dataset.status = "ok"
    /\ Len(dataset.sources) = 2
    /\ dataset.sources[1] = <<>>
    /\ dataset.sources[2] # <<>>
    /\ dataset.targets[1] # dataset.targets[2]

\* C6 as stated: any two constructions from the same file with the same cap
\* give the same dataset, also two in a row in one process.
C6_AnyTwoLoadsAgree ==
    (CleanFile /\ data_length >= 0) =>
        \A i, j \in 1..Len(log) : log[i].ds = log[j].ds

\* C6 amended: two constructions that each are the first to draw from the
\* generator after it was seeded (as in two separate runs) give the same
\* dataset.
C6_SeededLoadsAgree ==
    \A i, j \in 1..Len(log) :
        (log[i].fresh /\ log[j].fresh) => log[i].ds = log[j].ds

C6_Witness ==
    /\ Len(log) = 2
    /\ log[1].fresh /\ log[2].fresh
    /\ log[1].ds.status = "ok"
    /\ Len(log[1].ds.list_data_dict) = 2
    /\ log[1].ds.list_data_dict[1] # log[1].ds.list_data_dict[2]
    /\ log[1].ds.list_data_dict[1] # Normalized(file.recs[1])

\* C7: after loading a clean file of N records with cap C the dataset holds
\* exactly min(N, C) records, a prefix of a permutation of the file's
\* records, and len(dataset) is that number; for N >= 0 and C >= 0 (files of
\* one schema in the array layout, so that nothing but N and C varies).
C7_HoldsMinRecords ==
    \A e \in 1..Len(log) :
        LET ds == log[e].ds
        IN  (/\ CleanFile /\ file.layout = "array" /\ SameSchema(file.recs)
             /\ data_length >= 0)
            => /\ ds.status = "ok"
               /\ __len__(ds) = Min(Len(file.recs), data_length)
               /\ Len(ds.list_data_dict) = Min(Len(file.recs), data_length)
               /\ PrefixOfPermutation(ds)

C9_AllRecordsNormalized ==
    \A e \in 1..Len(log) :
        LET ds == log[e].ds
        IN  (/\ CleanFile /\ file.layout = "array"
             /\ file.recs # <<>> /\ data_length >= 1)
            => /\ ds.status = "ok"
               /\ PrefixOfPermutation(ds)
               /\ \A i \in 1..Len(ds.list_data_dict) :
                    DOMAIN ds.list_data_dict[i] = {"instruction", "output"}

\* ------------------------------------------------- specification: preprocess
\* preprocess called on arbitrary source and target texts.
SrcTexts == {<<>>, <<"a">>, <<"b", "a">>}
TgtTexts == {<<>>, <<"b">>, <<"b", DEFAULT_EOS_TOKEN>>}

PreInit ==
    /\ tokenizer \in Tokenizers
    /\ file = NoFile
    /\ data_length = 0
    /\ rng = 0
    /\ fresh = TRUE
    /\ log = <<>>
    /\ dataset = NoDataset
    /\ \E pairs \in SeqsUpTo(SrcTexts \X TgtTexts, MaxBatch) :
           out = [kind |-> "args",
                  sources |-> [k \in 1..Len(pairs) |-> pairs[k][1]],
                  targets |-> [k \in 1..Len(pairs) |-> pairs[k][2]]]

PreprocessCall ==
    /\ out.kind = "args"
    /\ LET d == preprocess(out.sources, out.targets, tokenizer)
       IN  out' = [kind |-> "preprocess", sources |-> out.sources,
                   targets |-> out.targets,
                   input_ids |-> d.input_ids, labels |-> d.labels]
    /\ UNCHANGED <<tokenizer, file, data_length, rng, fresh, log, dataset>>

PreNext == PreprocessCall

PreSpec == PreInit /\ [][PreNext]_vars

\* ------------------------------------------------------- claims: preprocess
\* The number of ids of the source text alone that differ from the pad id.
SourceLen(source, tok) ==
    LET t == Tokenize(source, tok)
    IN  Cardinality({i \in 1..Len(t) : t[i] # tok.pad_token_id})

\* C1: for every example produced by preprocess, labels is as long as
\* input_ids, labels[i] is IGNORE_INDEX at the first source_len positions and
\* labels[i] = input_ids[i] at the others, source_len being the number of
\* non-pad tokens of the source text tokenized alone.
C1_LabelsMaskPrompt ==
    out.kind = "preprocess" =>
        /\ Len(out.input_ids) = Len(out.sources)
        /\ Len(out.labels) = Len(out.sources)
        /\ \A k \in 1..Len(out.sources) :
             LET n == SourceLen(out.sources[k], tokenizer)
             IN  /\ Len(out.labels[k]) = Len(out.input_ids[k])
                 /\ \A i \in 1..Len(out.labels[k]) :
                      /\ i <= n => out.labels[k][i] = IGNORE_INDEX
                      /\ i > n  => out.labels[k][i] = out.input_ids[k][i]

\* A truncating tokenizer with its own begin and end tokens, and an example
\* whose prompt span is a proper, non-empty prefix.
C1_Witness ==
    /\ out.kind = "preprocess"
    /\ tokenizer.add_bos /\ tokenizer.add_eos
    /\ tokenizer.model_max_length = TruncLen
    /\ Len(out.sources) = 2
    /\ SourceLen(out.sources[1], tokenizer) > 0
    /\ SourceLen(out.sources[1], tokenizer) < Len(out.input_ids[1])
    /\ out.labels[1][1] = IGNORE_INDEX
    /\ out.labels[1][Len(out.labels[1])] # IGNORE_INDEX

\* --------------------------------------------------- specification: collator
\* The trainer's data loader draws indices, reads the instances with
\* __getitem__ and hands them to the collator.
CollateFiles ==
    { [layout |-> "array", junk |-> 0, damage |-> "none",
       recs |-> << Rec("instruction", <<>>, "output", <<"a">>),
                   Rec("instruction", <<"a">>, "output", <<"b">>),
                   Rec("instruction", <<"b">>, "output", <<"a", "b">>) >>],
      [layout |-> "jsonl", junk |-> 0, damage |-> "none",
       recs |-> << Rec("query", <<"a">>, "response", <<"b">>),
                   Rec("query", <<"b">>, "response", <<"a">>) >>] }

ColInit ==
    /\ tokenizer \in {t \in Tokenizers : ~t.merges}
    /\ file \in CollateFiles
    /\ data_length = Len(file.recs)
    /\ LET r == SupervisedDataset(file, data_length, tokenizer,
                                  random_seed(0, seed))
       IN  /\ dataset = [status |-> r.status,
                         list_data_dict |-> r.list_data_dict,
                         sources |-> r.sources, targets |-> r.targets]
           /\ rng = r.rng
           /\ log = <<[fresh |-> TRUE, ds |-> dataset]>>
    /\ fresh = FALSE
    /\ out = NoOut

Instances(ds, idx) == [k \in 1..Len(idx) |-> __getitem__(ds, idx[k])]

\* One call of the collator on a non-empty batch of dataset instances.
Collate ==
    /\ dataset.status = "ok"
    /\ \E idx \in SeqsUpTo(1..__len__(dataset), MaxBatch) :
          LET b == __call__(Instances(dataset, idx), tokenizer)
          IN  out' = [kind |-> "collate", idx |-> idx,
                      input_ids |-> b.input_ids, labels |-> b.labels,
                      attention_mask |-> b.attention_mask]
    /\ UNCHANGED <<tokenizer, file, data_length, rng, fresh, log, dataset>>

\* The rows of a collated batch, as instances of tensors.
Rows(b) == [k \in 1..Len(b.input_ids) |->
              [input_ids |-> b.input_ids[k], labels |-> b.labels[k]]]

\* The collated batch collated again (naive__call__ takes tensors).
CollateAgain ==
    /\ out.kind = "collate"
    /\ LET b == naive__call__(Rows(out), tokenizer)
       IN  out' = [kind |-> "again", idx |-> out.idx,
                   input_ids |-> b.input_ids, labels |-> b.labels,
                   attention_mask |-> b.attention_mask,
                   before |-> [input_ids |-> out.input_ids,
                               labels |-> out.labels,
                               attention_mask |-> out.attention_mask]]
    /\ UNCHANGED <<tokenizer, file, data_length, rng, fresh, log, dataset>>

ColNext == Collate \/ CollateAgain

ColSpec == ColInit /\ [][ColNext]_vars

\* --------------------------------------------------------- claims: collator
\* Example k of the batch on its own: the tokens of source + target and the
\* labels the specification gives them.
ExampleIds(k) ==
    Tokenize(dataset.sources[out.idx[k]] \o dataset.targets[out.idx[k]], tokenizer)

ExampleLabels(k) ==
    LET ids == ExampleIds(k)
        n   == SourceLen(dataset.sources[out.idx[k]], tokenizer)
    IN  [i \in 1..Len(ids) |-> IF i <= n THEN IGNORE_INDEX ELSE ids[i]]

BatchLen == MaxLen([k \in 1..Len(out.idx) |-> ExampleIds(k)])

EqualLengths ==
    \A j, k \in 1..Len(out.idx) : Len(ExampleIds(j)) = Len(ExampleIds(k))

TrueCount(row) == Cardinality({i \in 1..Len(row) : row[i]})

\* C2: input_ids, labels and attention_mask all have shape [batch, L] with L
\* the largest token length in the batch; row k keeps example k's tokens in
\* its first len_k positions and every later position holds the pad id in
\* input_ids and IGNORE_INDEX in labels.
C2_RightPadded ==
    out.kind = "collate" =>
        /\ Len(out.input_ids) = Len(out.idx)
        /\ Len(out.labels) = Len(out.idx)
        /\ Len(out.attention_mask) = Len(out.idx)
        /\ \A k \in 1..Len(out.idx) :
             LET ids == ExampleIds(k)
                 lab == ExampleLabels(k)
                 L   == BatchLen
             IN  /\ Len(out.input_ids[k]) = L
                 /\ Len(out.labels[k]) = L
                 /\ Len(out.attention_mask[k]) = L
                 /\ \A i \in 1..L :
                      IF i <= Len(ids)
                      THEN /\ out.input_ids[k][i] = ids[i]
                           /\ out.labels[k][i] = lab[i]
                      ELSE /\ out.input_ids[k][i] = tokenizer.pad_token_id
                           /\ out.labels[k][i] = IGNORE_INDEX

C2_Witness ==
    /\ out.kind = "collate"
    /\ Len(out.idx) = 2
    /\ Len(ExampleIds(1)) < Len(ExampleIds(2))
    /\ tokenizer.model_max_length > TruncLen
    /\ Len(out.input_ids[1]) = Len(ExampleIds(2))
    /\ out.input_ids[1][Len(ExampleIds(1)) + 1] = tokenizer.pad_token_id

\* C3: in every collated batch the number of true values in row k of
\* attention_mask is the unpadded token length of example k, whatever ids the
\* example holds.
C3_MaskCountsTokens ==
    out.kind = "collate" =>
        \A k \in 1..Len(out.idx) :
            TrueCount(out.attention_mask[k]) = Len(ExampleIds(k))

\* C4: when every example of the batch has the same token length the
\* collated rows are the unpadded examples, and collating the result again
\* gives the same batch.
C4_EqualLengthIdempotent ==
    /\ (out.kind = "collate" /\ EqualLengths) =>
          \A k \in 1..Len(out.idx) :
              /\ out.input_ids[k] = ExampleIds(k)
              /\ out.labels[k] = ExampleLabels(k)
    /\ (out.kind = "again" /\ EqualLengths) =>
          /\ out.input_ids = out.before.input_ids
          /\ out.labels = out.before.labels
          /\ out.attention_mask = out.before.attention_mask
          /\ \A k \in 1..Len(out.idx) : out.input_ids[k] = ExampleIds(k)

C4_Witness ==
    /\ out.kind = "again"
    /\ Len(out.idx) = 2
    /\ out.idx[1] # out.idx[2]
    /\ EqualLengths
    /\ Len(ExampleIds(1)) > TruncLen

\* C10: masking the prompt span of labels leaves the input_ids of the same
\* example as tokenized, and the collator calls leave the dataset's stored
\* sources and targets as they were: the batch in hand is the batch of the
\* stored texts of its instances.
C10_NoAliasNoSharedState ==
    /\ dataset = log[1].ds
    /\ out.kind = "collate" =>
          \A k \in 1..Len(out.idx) :
              /\ SubSeq(out.input_ids[k], 1, Len(ExampleIds(k))) = ExampleIds(k)
              /\ SubSeq(out.labels[k], 1, Len(ExampleIds(k))) = ExampleLabels(k)

C10_Witness ==
    /\ out.kind = "collate"
    /\ Len(out.idx) = 2
    /\ SourceLen(dataset.sources[out.idx[1]], tokenizer) >= 2
    /\ out.labels[1][2] = IGNORE_INDEX
    /\ out.input_ids[1][2] # IGNORE_INDEX

====
